---- MODULE Spec2Model ----
(***************************************************************************)
(* Uniswap analytics dashboard: four sections (Swaps, TokenVolume,        *)
(* TopPairs, ProtocolStats), each driven by one useQuery result, and the   *)
(* client-side aggregation of the swap list into chart points.             *)
(*                                                                         *)
(* Sources: src/src/index.js (client, current App) and                     *)
(* src/.history/src/App_20240914233132.js (three earlier App variants:     *)
(* 10-minute buckets, pagination, first-timestamp chunks).                 *)
(*                                                                         *)
(* Strings that the code parses (amountUSD, timestamp, object keys) are    *)
(* sequences of one-character strings, so that parsing and formatting are  *)
(* computed and not assumed.  A JavaScript number is a record              *)
(* [nan, v]; amounts are held in hundredths, so that decimal strings with  *)
(* at most two fractional digits are exact.  Floating-point rounding of    *)
(* sums is not modelled.                                                   *)
(***************************************************************************)
EXTENDS Integers, Sequences, FiniteSets

\* ------------------------------------------------------------------ bounds

\* Longest swap list drawn element by element (any order, any amounts).
MaxSwaps == 2

\* Largest number of full 100-swap chunks in a generated descending list.
MaxFullChunks == 2

\* Largest number of load-more clicks in the pagination variant.
MaxClicks == 2

\* Longest token / pool / day list in a response.
MaxRows == 1

\* Longest token / pool / day list drawn row by row for the bar and line
\* series.
MaxBars == 3

\* ------------------------------------------------------- program constants

\* for (let i = 0; i < swaps.length; i += 100) ... swaps.slice(i, i + 100)
ChunkSize == 100

\* Math.floor(timestamp.getMinutes() / 10) * 10
IntervalMinutes == 10

\* swaps.slice(0, 5)
LatestCount == 5

\* const pageSize = 100
pageSize == 100

\* tokens(first: 5, ...) and pools(first: 5, ...)
TopCount == 5

\* uniswapDayDatas(first: 30, ...)
DayCount == 30

\* ------------------------------------------------------------ JS numbers

Num(n) == [nan |-> FALSE, v |-> n]

NaN == [nan |-> TRUE, v |-> 0]

\* Seeded fault in the sum: an addend that is not a number counts as zero.
AddOrSkip(a, b) == IF b.nan THEN a ELSE IF a.nan THEN b ELSE Num(a.v + b.v)

\* a + b on numbers: NaN is absorbing.
Add(a, b) == IF a.nan \/ b.nan THEN NaN ELSE Num(a.v + b.v)

Digit == {"0", "1", "2", "3", "4", "5", "6", "7", "8", "9"}

DigitVal(c) ==
    CASE c = "0" -> 0 [] c = "1" -> 1 [] c = "2" -> 2 [] c = "3" -> 3
      [] c = "4" -> 4 [] c = "5" -> 5 [] c = "6" -> 6 [] c = "7" -> 7
      [] c = "8" -> 8 [] c = "9" -> 9

DigitChar(d) ==
    CASE d = 0 -> "0" [] d = 1 -> "1" [] d = 2 -> "2" [] d = 3 -> "3"
      [] d = 4 -> "4" [] d = 5 -> "5" [] d = 6 -> "6" [] d = 7 -> "7"
      [] d = 8 -> "8" [] d = 9 -> "9"

\* Length of the longest prefix of s made of digits.
RECURSIVE DigitPrefixLen(_)
DigitPrefixLen(s) ==
    IF s = <<>> \/ Head(s) \notin Digit THEN 0 ELSE 1 + DigitPrefixLen(Tail(s))

\* Value of a digit string, most significant digit first.
RECURSIVE DigitsValue(_, _)
DigitsValue(s, acc) ==
    IF s = <<>> THEN acc ELSE DigitsValue(Tail(s), acc * 10 + DigitVal(Head(s)))

\* String(n) for an integer n.
RECURSIVE NatToString(_)
NatToString(n) ==
    IF n < 10 THEN <<DigitChar(n)>>
    ELSE NatToString(n \div 10) \o <<DigitChar(n % 10)>>

IntToString(n) == IF n < 0 THEN <<"-">> \o NatToString(-n) ELSE NatToString(n)

\* parseInt(s): optional sign, then the longest digit prefix; NaN without one.
parseInt(s) ==
    LET neg  == s # <<>> /\ Head(s) = "-"
        body == IF s # <<>> /\ Head(s) \in {"-", "+"} THEN Tail(s) ELSE s
        k    == DigitPrefixLen(body)
        mag  == DigitsValue(SubSeq(body, 1, k), 0)
    IN  IF k = 0 THEN NaN ELSE Num(IF neg THEN -mag ELSE mag)

\* parseFloat(s): optional sign, digits, optional "." and digits; NaN when
\* neither part has a digit.  The value is in hundredths.
parseFloat(s) ==
    LET neg   == s # <<>> /\ Head(s) = "-"
        body  == IF s # <<>> /\ Head(s) \in {"-", "+"} THEN Tail(s) ELSE s
        k     == DigitPrefixLen(body)
        rest  == SubSeq(body, k + 1, Len(body))
        dot   == rest # <<>> /\ Head(rest) = "."
        f     == IF dot THEN DigitPrefixLen(Tail(rest)) ELSE 0
        fdig  == IF dot THEN SubSeq(Tail(rest), 1, f) ELSE <<>>
        d1    == IF f >= 1 THEN DigitVal(fdig[1]) ELSE 0
        d2    == IF f >= 2 THEN DigitVal(fdig[2]) ELSE 0
        mag   == DigitsValue(SubSeq(body, 1, k), 0) * 100 + d1 * 10 + d2
    IN  IF k = 0 /\ f = 0 THEN NaN ELSE Num(IF neg THEN -mag ELSE mag)

\* Integer part of a / b (b > 0), rounding toward zero as Date's TimeClip does.
Trunc(a, b) == IF a >= 0 THEN a \div b ELSE -((-a) \div b)

Min(a, b) == IF a <= b THEN a ELSE b

\* ------------------------------------------------------------ swap records

\* One record of the swaps list of SWAP_QUERY.
Swap(id, amountUSD, timestamp) ==
    [id |-> id, amountUSD |-> amountUSD, timestamp |-> timestamp,
     token0 |-> "WETH", token1 |-> "USDC"]

\* arr.slice(from, to): zero-based, end exclusive, clipped to the array.
Slice(arr, from, to) == SubSeq(arr, from + 1, Min(to, Len(arr)))

\* The reduces below visit the elements lo..hi first to last, carrying the
\* accumulator.  The range is halved, and the accumulator of the first half
\* is evaluated before the second half starts, only to keep TLC's evaluation
\* stack shallow on lists of several hundred swaps.
Evaluated(x) == x = x

\* (sum, swap) => sum + parseFloat(swap.amountUSD) over chunk[lo..hi]
RECURSIVE SumAmountUSDRange(_, _, _, _)
SumAmountUSDRange(chunk, lo, hi, sum) ==
    IF lo > hi THEN sum
    ELSE IF lo = hi THEN Add(sum, parseFloat(chunk[lo].amountUSD))
    ELSE LET first == SumAmountUSDRange(chunk, lo, (lo + hi) \div 2, sum)
         IN  IF Evaluated(first)
             THEN SumAmountUSDRange(chunk, (lo + hi) \div 2 + 1, hi, first)
             ELSE first

\* chunk.reduce((sum, swap) => sum + parseFloat(swap.amountUSD), 0)
SumAmountUSD(chunk, sum) == SumAmountUSDRange(chunk, 1, Len(chunk), sum)

\* (sum, swap) => sum + parseInt(swap.timestamp) over chunk[lo..hi]
RECURSIVE SumTimestampRange(_, _, _, _)
SumTimestampRange(chunk, lo, hi, sum) ==
    IF lo > hi THEN sum
    ELSE IF lo = hi THEN Add(sum, parseInt(chunk[lo].timestamp))
    ELSE LET first == SumTimestampRange(chunk, lo, (lo + hi) \div 2, sum)
         IN  IF Evaluated(first)
             THEN SumTimestampRange(chunk, (lo + hi) \div 2 + 1, hi, first)
             ELSE first

\* chunk.reduce((sum, swap) => sum + parseInt(swap.timestamp), 0)
SumTimestamp(chunk, sum) == SumTimestampRange(chunk, 1, Len(chunk), sum)

\* new Date(seconds * 1000) for a number of seconds: epoch milliseconds, or
\* the invalid date for NaN.
DateOfSeconds(n) == IF n.nan THEN NaN ELSE Num(n.v * 1000)

\* ------------------------------------------- count buckets, current Swaps

\* Seeded fault in the chunk: the timestamp sum is divided by 100, not by
\* chunk.length.
AvgChunkPointFixedDivisor(chunk) ==
    LET totalAmountUSD == SumAmountUSD(chunk, Num(0))
        sumTs          == SumTimestamp(chunk, Num(0))
    IN  [x |-> IF sumTs.nan THEN NaN
               ELSE Num(Trunc(sumTs.v * 1000, ChunkSize)),
         y |-> totalAmountUSD]

\* One chunk of the current Swaps: y is the sum of the amounts, x the date of
\* the average timestamp (sum / chunk.length, times 1000, clipped to whole ms).
AvgChunkPoint(chunk) ==
    LET totalAmountUSD == SumAmountUSD(chunk, Num(0))
        sumTs          == SumTimestamp(chunk, Num(0))
    IN  [x |-> IF sumTs.nan THEN NaN
               ELSE Num(Trunc(sumTs.v * 1000, Len(chunk))),
         y |-> totalAmountUSD]

\* Seeded fault in the loop: the chunk is cut one short, slice(i, i + 99).
RECURSIVE AggregateAvgFromShortSlice(_, _)
AggregateAvgFromShortSlice(swaps, i) ==
    IF i < Len(swaps)
    THEN <<AvgChunkPoint(Slice(swaps, i, i + ChunkSize - 1))>>
             \o AggregateAvgFromShortSlice(swaps, i + ChunkSize)
    ELSE <<>>

\* The loop "for (let i = 0; i < swaps.length; i += 100)" from index i on.
RECURSIVE AggregateAvgFrom(_, _)
AggregateAvgFrom(swaps, i) ==
    IF i < Len(swaps)
    THEN <<AvgChunkPoint(Slice(swaps, i, i + ChunkSize))>>
             \o AggregateAvgFrom(swaps, i + ChunkSize)
    ELSE <<>>

AggregateAvg(swaps) == AggregateAvgFrom(swaps, 0)

\* --------------------------------- count buckets, first-timestamp variant

\* One chunk of the earliest Swaps: x is the date of chunk[0].timestamp.
FirstChunkPoint(chunk) ==
    [x |-> DateOfSeconds(parseInt(chunk[1].timestamp)),
     y |-> SumAmountUSD(chunk, Num(0))]

\* Seeded fault in the loop: a remainder shorter than a full chunk is dropped.
RECURSIVE AggregateFirstFromFullOnly(_, _)
AggregateFirstFromFullOnly(swaps, i) ==
    IF i + ChunkSize <= Len(swaps)
    THEN <<FirstChunkPoint(Slice(swaps, i, i + ChunkSize))>>
             \o AggregateFirstFromFullOnly(swaps, i + ChunkSize)
    ELSE <<>>

\* The loop of the earliest Swaps from index i on.
RECURSIVE AggregateFirstFrom(_, _)
AggregateFirstFrom(swaps, i) ==
    IF i < Len(swaps)
    THEN <<FirstChunkPoint(Slice(swaps, i, i + ChunkSize))>>
             \o AggregateFirstFrom(swaps, i + ChunkSize)
    ELSE <<>>

AggregateFirst(swaps) == AggregateFirstFrom(swaps, 0)

\* ------------------------------------------------ 10-minute time buckets

\* Floor division and modulus on epoch milliseconds.
FloorDiv(a, b) == a \div b

\* timestamp.getMinutes(): minutes of the hour in local time; tz is the
\* local offset from UTC in minutes (east positive).
GetMinutes(ms, tz) == FloorDiv(ms + tz * 60000, 60000) % 60

\* timestamp.setMinutes(minutes, 0, 0): local minutes set, seconds and
\* milliseconds cleared; returns the new epoch milliseconds.
SetMinutes(ms, minutes, tz) ==
    FloorDiv(ms + tz * 60000, 3600000) * 3600000 + minutes * 60000 - tz * 60000

\* timeKey of one swap: fromUnixTime, Math.floor(getMinutes() / 10) * 10,
\* setMinutes, getTime.
TimeKey(swap, tz) ==
    LET timestamp == DateOfSeconds(parseInt(swap.timestamp))
    IN  IF timestamp.nan THEN NaN
        ELSE LET minutes ==
                   (GetMinutes(timestamp.v, tz) \div IntervalMinutes) * IntervalMinutes
             IN  Num(SetMinutes(timestamp.v, minutes, tz))

\* The property name a number is stored under: String(timeKey).
PropertyKey(n) == IF n.nan THEN <<"N", "a", "N">> ELSE IntToString(n.v)

\* acc is the object being built, held as the sequence of its entries in
\* property order: insertion order, as for keys of real epoch milliseconds
\* (no array indices).
\* Position of property key in acc, 0 when absent.
RECURSIVE IndexOfKey(_, _, _)
IndexOfKey(acc, key, i) ==
    IF i > Len(acc) THEN 0
    ELSE IF acc[i].key = key THEN i ELSE IndexOfKey(acc, key, i + 1)

\* Seeded fault in the reducer step: "=" for "+=" on totalAmount.
AccumulateSwapAssign(acc, swap, tz) ==
    LET key  == PropertyKey(TimeKey(swap, tz))
        at   == IndexOfKey(acc, key, 1)
        acc1 == IF at = 0
                THEN Append(acc, [key |-> key, totalAmount |-> Num(0), count |-> 0])
                ELSE acc
        j    == IF at = 0 THEN Len(acc1) ELSE at
    IN  [acc1 EXCEPT ![j].totalAmount = parseFloat(swap.amountUSD),
                     ![j].count = @ + 1]

\* Seeded fault in the reducer step: count is set to 1, not raised by 1.
AccumulateSwapCountOnce(acc, swap, tz) ==
    LET key  == PropertyKey(TimeKey(swap, tz))
        at   == IndexOfKey(acc, key, 1)
        acc1 == IF at = 0
                THEN Append(acc, [key |-> key, totalAmount |-> Num(0), count |-> 0])
                ELSE acc
        j    == IF at = 0 THEN Len(acc1) ELSE at
    IN  [acc1 EXCEPT ![j].totalAmount = Add(@, parseFloat(swap.amountUSD)),
                     ![j].count = 1]

\* One step of swaps.reduce: create acc[timeKey] when missing, then add the
\* parsed amount and one to the count.
AccumulateSwap(acc, swap, tz) ==
    LET key  == PropertyKey(TimeKey(swap, tz))
        at   == IndexOfKey(acc, key, 1)
        acc1 == IF at = 0
                THEN Append(acc, [key |-> key, totalAmount |-> Num(0), count |-> 0])
                ELSE acc
        j    == IF at = 0 THEN Len(acc1) ELSE at
    IN  [acc1 EXCEPT ![j].totalAmount = Add(@, parseFloat(swap.amountUSD)),
                     ![j].count = @ + 1]

\* The reducer over swaps[lo..hi], first to last.
RECURSIVE ReduceSwapsRange(_, _, _, _, _)
ReduceSwapsRange(swaps, lo, hi, acc, tz) ==
    IF lo > hi THEN acc
    ELSE IF lo = hi THEN AccumulateSwap(acc, swaps[lo], tz)
    ELSE LET first == ReduceSwapsRange(swaps, lo, (lo + hi) \div 2, acc, tz)
         IN  IF Evaluated(first)
             THEN ReduceSwapsRange(swaps, (lo + hi) \div 2 + 1, hi, first, tz)
             ELSE first

\* swaps.reduce((acc, swap) => { ... }, {})
ReduceSwaps(swaps, acc, tz) == ReduceSwapsRange(swaps, 1, Len(swaps), acc, tz)

\* ([timestamp, data]) => ({ x: new Date(parseInt(timestamp)), y, count })
EntryPoint(entry) ==
    [x |-> parseInt(entry.key), y |-> entry.totalAmount, count |-> entry.count]

\* Object.entries(aggregatedData).map(...)
MapEntryPoint(entries) == [i \in 1..Len(entries) |-> EntryPoint(entries[i])]

\* The comparator (a, b) => a.x - b.x says a goes after b.
ComesAfter(a, b) == ~a.x.nan /\ ~b.x.nan /\ a.x.v > b.x.v

\* Insert p into the sorted sequence s, after every element not greater.
RECURSIVE InsertByX(_, _)
InsertByX(s, p) ==
    IF s = <<>> THEN <<p>>
    ELSE IF ComesAfter(Head(s), p) THEN <<p>> \o s
    ELSE <<Head(s)>> \o InsertByX(Tail(s), p)

\* Seeded fault in the sort: the points stay in the order of Object.entries.
SortByXOmitted(points, sorted) == sorted \o points

\* .sort((a, b) => a.x - b.x): a stable sort.
RECURSIVE SortByX(_, _)
SortByX(points, sorted) ==
    IF points = <<>> THEN sorted
    ELSE SortByX(Tail(points), InsertByX(sorted, Head(points)))

\* aggregatedData and chartData of the 10-minute Swaps.
AggregateTime(swaps, tz) ==
    SortByX(MapEntryPoint(ReduceSwaps(swaps, <<>>, tz)), <<>>)

\* ------------------------------------------------------------ query results

\* The sections of App, in the order its JSX lists them.
Sections == <<"Swaps", "TokenVolume", "TopPairs", "ProtocolStats">>

SectionSet == {Sections[i] : i \in 1..Len(Sections)}

\* The list field each section reads from its query's data.
ListField(s) ==
    CASE s = "Swaps" -> "swaps"
      [] s = "TokenVolume" -> "tokens"
      [] s = "TopPairs" -> "pools"
      [] s = "ProtocolStats" -> "uniswapDayDatas"

\* data of a useQuery result: undefined, or an object holding at most the one
\* list field named (field "" is an object without the expected field).
Undefined == [tag |-> "undefined", field |-> "", list |-> <<>>]

Obj(field, list) == [tag |-> "object", field |-> field, list |-> list]

EmptyObj == Obj("", <<>>)

\* error of a useQuery result: no error, or an ApolloError with its message.
NoError == ""

\* { loading, error, data } as useQuery returns it.
Result(loading, error, data) == [loading |-> loading, error |-> error, data |-> data]

\* data?.field: undefined for undefined data or a missing field.
HasField(data, field) == data.tag = "object" /\ data.field = field

\* ---------------------------------------------------------- rendered output

\* What a section component returns.  kind "throw" is an exception raised
\* while rendering; kind "none" is a section that has not rendered.
Output(kind, message, chart, cards, control) ==
    [kind |-> kind, message |-> message, chart |-> chart, cards |-> cards,
     control |-> control]

NotRendered == Output("none", "", <<>>, <<>>, "none")

\* <LoadingSkeleton /> (and <CircularProgress /> in the earliest variant)
LoadingSkeleton == Output("loading", "", <<>>, <<>>, "none")

\* <ErrorMessage message={error.message} />: "Error: {message}"
ErrorMessage(message) == Output("error", message, <<>>, <<>>, "none")

\* A TypeError or RangeError raised by the component function.
Throw == Output("throw", "", <<>>, <<>>, "none")

\* ---------------------------------------------------------- Swaps sections

\* format(new Date(parseInt(swap.timestamp) * 1000), 'PPpp'): the formatted
\* text is held as the pattern with the date it renders.
FormatPPpp(swap) == [pattern |-> "PPpp", date |-> DateOfSeconds(parseInt(swap.timestamp))]

\* swap => ({ ...swap, timestamp: format(...) })
LatestCard(swap) == [swap EXCEPT !.timestamp = FormatPPpp(swap)]

\* swaps.slice(0, 5).map(...)
LatestSwaps(swaps) ==
    LET head == Slice(swaps, 0, LatestCount)
    IN  [i \in 1..Len(head) |-> LatestCard(head[i])]

\* Seeded fault in the map callback: the formatted text, which starts with
\* the name of a month, is assigned to the swap itself,
\* swap.timestamp = format(...).
SwapsAfterLatestInPlace(swaps) ==
    [i \in 1..Len(swaps) |->
        IF i <= LatestCount THEN [swaps[i] EXCEPT !.timestamp = <<"S", "e", "p", " ">>]
        ELSE swaps[i]]

\* The fetched swaps array once latestSwaps is built: slice and map give new
\* arrays and the callback spreads each swap into a new object, on which
\* timestamp is set, so every fetched record is as it was.
SwapsAfterLatest(swaps) == [i \in 1..Len(swaps) |-> swaps[i]]

\* date-fns format throws a RangeError on an invalid date.
FormatThrows(swaps) ==
    \E i \in 1..Len(Slice(swaps, 0, LatestCount)) : parseInt(swaps[i].timestamp).nan

\* data?.swaps || []
SwapsOrEmpty(data) == IF HasField(data, "swaps") THEN data.list ELSE <<>>

\* The chart and the recent-swap cards of a Swaps section.
SwapsContent(chart, swaps, control) ==
    IF FormatThrows(swaps) THEN Throw
    ELSE Output("content", "", chart, LatestSwaps(swaps), control)

\* Seeded fault in the current Swaps: data.swaps read without the "?." and "|| []".
SwapsCurrentUnguarded(r) ==
    IF r.loading THEN LoadingSkeleton
    ELSE IF r.error # NoError THEN ErrorMessage(r.error)
    ELSE IF ~HasField(r.data, "swaps") THEN Throw
    ELSE SwapsContent(AggregateAvg(r.data.list), r.data.list, "none")

\* function Swaps() of the current App: chunks of 100, average timestamp.
SwapsCurrent(r) ==
    IF r.loading THEN LoadingSkeleton
    ELSE IF r.error # NoError THEN ErrorMessage(r.error)
    ELSE LET swaps == SwapsOrEmpty(r.data)
         IN  SwapsContent(AggregateAvg(swaps), swaps, "none")

\* function Swaps() of the 10-minute variant.
SwapsTime(r, tz) ==
    IF r.loading THEN LoadingSkeleton
    ELSE IF r.error # NoError THEN ErrorMessage(r.error)
    ELSE LET swaps == SwapsOrEmpty(r.data)
         IN  SwapsContent(AggregateTime(swaps, tz), swaps, "none")

\* function Swaps() of the earliest variant: data.swaps is read unguarded and
\* the cards use toLocaleString, which does not throw.
SwapsFirst(r) ==
    IF r.loading THEN LoadingSkeleton
    ELSE IF r.error # NoError THEN ErrorMessage(r.error)
    ELSE IF ~HasField(r.data, "swaps") THEN Throw
    ELSE Output("content", "", AggregateFirst(r.data.list),
                LatestSwaps(r.data.list), "none")

\* One chart point per swap in the pagination variant.
SwapPoint(swap) ==
    [x |-> DateOfSeconds(parseInt(swap.timestamp)), y |-> parseFloat(swap.amountUSD)]

\* swaps.map((swap, index) => ({ x, y, label }))
MapSwapPoint(swaps) == [i \in 1..Len(swaps) |-> SwapPoint(swaps[i])]

\* function Swaps() of the pagination variant: the skeleton only while
\* loading without data; the load-more button unless loading.
SwapsPaged(r) ==
    IF r.loading /\ r.data.tag = "undefined" THEN LoadingSkeleton
    ELSE IF r.error # NoError THEN ErrorMessage(r.error)
    ELSE LET swaps == SwapsOrEmpty(r.data)
         IN  SwapsContent(MapSwapPoint(swaps), swaps,
                          IF r.loading THEN "progress" ELSE "button")

\* The Swaps component of the given variant of App.
Swaps(v, r, tz) ==
    CASE v = "current" -> SwapsCurrent(r)
      [] v = "time" -> SwapsTime(r, tz)
      [] v = "paged" -> SwapsPaged(r)
      [] v = "first" -> SwapsFirst(r)

\* ------------------------------------------------- the three other sections

TokenLabel(token) == token.symbol

\* `${pair.token0.symbol}/${pair.token1.symbol}`
PairLabel(pair) == <<pair.token0, "/", pair.token1>>

RowVolume(row) == parseFloat(row.volumeUSD)

\* format(new Date(entry.date * 1000), 'MMM d')
DayLabel(entry) == [pattern |-> "MMM d", date |-> Num(entry.date * 1000)]

DayTvl(entry) == entry.tvlUSD

DayVolume(entry) == entry.volumeUSD

DayFees(entry) == entry.feesUSD

\* Seeded fault in TokenVolume: the data is looked at before the error.
TokenVolumeDataFirst(r) ==
    IF r.loading THEN LoadingSkeleton
    ELSE IF HasField(r.data, "tokens")
    THEN Output("content", "",
                [labels |-> [i \in 1..Len(r.data.list) |-> TokenLabel(r.data.list[i])],
                 data |-> [i \in 1..Len(r.data.list) |-> RowVolume(r.data.list[i])]],
                <<>>, "none")
    ELSE IF r.error # NoError THEN ErrorMessage(r.error)
    ELSE Throw

\* function TokenVolume(): data.tokens and tokens.map are unguarded.
TokenVolume(r) ==
    IF r.loading THEN LoadingSkeleton
    ELSE IF r.error # NoError THEN ErrorMessage(r.error)
    ELSE IF ~HasField(r.data, "tokens") THEN Throw
    ELSE LET tokens == r.data.list
         IN  Output("content", "",
                    [labels |-> [i \in 1..Len(tokens) |-> TokenLabel(tokens[i])],
                     data |-> [i \in 1..Len(tokens) |-> RowVolume(tokens[i])]],
                    <<>>, "none")

\* Seeded fault in TopPairs: the values are listed last record first.
TopPairsValuesReversed(r) ==
    IF r.loading THEN LoadingSkeleton
    ELSE IF r.error # NoError THEN ErrorMessage(r.error)
    ELSE IF ~HasField(r.data, "pools") THEN Throw
    ELSE LET pairs == r.data.list
         IN  Output("content", "",
                    [labels |-> [i \in 1..Len(pairs) |-> PairLabel(pairs[i])],
                     data |-> [i \in 1..Len(pairs) |->
                                  RowVolume(pairs[Len(pairs) + 1 - i])]],
                    <<>>, "none")

\* function TopPairs(): data.pools and pairs.map are unguarded.
TopPairs(r) ==
    IF r.loading THEN LoadingSkeleton
    ELSE IF r.error # NoError THEN ErrorMessage(r.error)
    ELSE IF ~HasField(r.data, "pools") THEN Throw
    ELSE LET pairs == r.data.list
         IN  Output("content", "",
                    [labels |-> [i \in 1..Len(pairs) |-> PairLabel(pairs[i])],
                     data |-> [i \in 1..Len(pairs) |-> RowVolume(pairs[i])]],
                    <<>>, "none")

\* Seeded fault in ProtocolStats: the labels are put in ascending date order
\* while the series keep the order of the response.
ProtocolStatsLabelsReversed(r) ==
    IF r.loading THEN LoadingSkeleton
    ELSE IF r.error # NoError THEN ErrorMessage(r.error)
    ELSE IF ~HasField(r.data, "uniswapDayDatas") THEN Throw
    ELSE LET days == r.data.list
         IN  Output("content", "",
                    [labels |-> [i \in 1..Len(days) |-> DayLabel(days[Len(days) + 1 - i])],
                     tvl |-> [i \in 1..Len(days) |-> DayTvl(days[i])],
                     volume |-> [i \in 1..Len(days) |-> DayVolume(days[i])],
                     fees |-> [i \in 1..Len(days) |-> DayFees(days[i])]],
                    <<>>, "none")

\* function ProtocolStats(): data.uniswapDayDatas is unguarded; three charts
\* share one label list.
ProtocolStats(r) ==
    IF r.loading THEN LoadingSkeleton
    ELSE IF r.error # NoError THEN ErrorMessage(r.error)
    ELSE IF ~HasField(r.data, "uniswapDayDatas") THEN Throw
    ELSE LET days == r.data.list
         IN  Output("content", "",
                    [labels |-> [i \in 1..Len(days) |-> DayLabel(days[i])],
                     tvl |-> [i \in 1..Len(days) |-> DayTvl(days[i])],
                     volume |-> [i \in 1..Len(days) |-> DayVolume(days[i])],
                     fees |-> [i \in 1..Len(days) |-> DayFees(days[i])]],
                    <<>>, "none")

\* data of the result r once section s has rendered it: the Swaps sections
\* build latestSwaps from data.swaps when they are past their guards.
DataAfterRender(s, r) ==
    IF s = "Swaps" /\ ~r.loading /\ r.error = NoError /\ HasField(r.data, "swaps")
    THEN Obj("swaps", SwapsAfterLatest(r.data.list))
    ELSE r.data

\* What section s returns for the result r of its query.
RenderSection(s, v, r, tz) ==
    CASE s = "Swaps" -> Swaps(v, r, tz)
      [] s = "TokenVolume" -> TokenVolume(r)
      [] s = "TopPairs" -> TopPairs(r)
      [] s = "ProtocolStats" -> ProtocolStats(r)

\* ------------------------------------------------------------- input sets

\* The variants of App: the current one (index.js) and the three of the
\* history file (10-minute buckets, pagination, first-timestamp chunks).
Variants == {"current", "time", "paged", "first"}

\* Local offsets from UTC, in minutes, of the browser that runs the page.
TzOffsets == {0, 345, -300}

\* tz is read by the 10-minute variant only.
TzFor(v) == IF v = "time" THEN TzOffsets ELSE {0}

\* Failure reasons of a fetch.
Messages == {"Failed to fetch"}

\* (amountUSD, timestamp) of the swaps the page specification draws from.
PagePool == {<<IntToString(10), IntToString(600)>>,
             <<IntToString(20) \o <<".", "5">>, IntToString(0)>>}

PagedPool == {<<IntToString(10), IntToString(600)>>}

\* All swap lists of length <= n over a pool, ids by position.
ListsOver(pool, n) ==
    UNION {{[i \in 1..k |-> Swap(i, f[i][1], f[i][2])] : f \in [1..k -> pool]} : k \in 0..n}

TokenRows == {[symbol |-> "WETH", volumeUSD |-> IntToString(90)],
              [symbol |-> "USDC", volumeUSD |-> IntToString(7) \o <<".", "5">>]}

PoolRows == {[token0 |-> "WETH", token1 |-> "USDC", volumeUSD |-> IntToString(90)],
             [token0 |-> "DAI", token1 |-> "USDC", volumeUSD |-> IntToString(8)]}

DayRows == {[date |-> 19980, tvlUSD |-> IntToString(500), volumeUSD |-> IntToString(40),
             feesUSD |-> IntToString(1)],
            [date |-> 19979, tvlUSD |-> IntToString(480), volumeUSD |-> IntToString(30),
             feesUSD |-> IntToString(2)]}

RowsOver(pool, n) == UNION {[1..k -> pool] : k \in 0..n}

\* The lists a succeeded query of section s can return.  The pagination
\* variant draws from fewer, to leave room for its load-more steps.
Lists(s, v) ==
    CASE s = "Swaps" ->
           IF v = "paged" THEN ListsOver(PagedPool, MaxSwaps) ELSE ListsOver(PagePool, MaxSwaps)
      [] s = "TokenVolume" -> IF v = "paged" THEN {<<>>} ELSE RowsOver(TokenRows, MaxRows)
      [] s = "TopPairs" -> IF v = "paged" THEN {<<>>} ELSE RowsOver(PoolRows, MaxRows)
      [] s = "ProtocolStats" -> IF v = "paged" THEN {<<>>} ELSE RowsOver(DayRows, MaxRows)

\* data of a result without error: absent, an object without the list
\* field, or an object with it.
SuccessData(s, v) ==
    (IF v = "paged" /\ s # "Swaps" THEN {} ELSE {Undefined, EmptyObj})
        \cup {Obj(ListField(s), l) : l \in Lists(s, v)}

\* data of a result with an error: absent, or present beside the error.
ErrorData(s, v) ==
    IF v = "paged" /\ s # "Swaps" THEN {Undefined}
    ELSE {Undefined, Obj(ListField(s), <<>>)}

\* ------------------------------------------------------------------ state

VARIABLES
    variant,   \* which App is running
    tz,        \* local UTC offset of the browser, minutes
    root,      \* "idle" before root.render, "mounted", "unmounted" after a throw
    mounted,   \* the sections in the order they were mounted
    q,         \* q[s]: the { loading, error, data } useQuery gave section s
    inflight,  \* requests sent and not yet answered
    output,    \* output[s]: what section s returned at its last render
    page,      \* useState(0) of the pagination variant
    clicks,    \* load-more clicks so far
    pages      \* history: skip of each block appended to the swap list

vars == <<variant, tz, root, mounted, q, inflight, output, page, clicks, pages>>

\* The request useQuery sends for section s on mount.
QueryRequest(s) == [sec |-> s, kind |-> "query", skip |-> 0, page |-> 0, n |-> 0]

\* App's JSX: <Swaps /> <TokenVolume /> <TopPairs /> <ProtocolStats />
MountOrder == Sections

Init ==
    /\ variant \in Variants
    /\ tz \in TzFor(variant)
    /\ root = "idle"
    /\ mounted = <<>>
    /\ q = [s \in SectionSet |-> Result(FALSE, NoError, Undefined)]
    /\ inflight = {}
    /\ output = [s \in SectionSet |-> NotRendered]
    /\ page = 0
    /\ clicks = 0
    /\ pages = <<>>

\* root.render(<App />): every section mounts, in JSX order; its useQuery
\* starts loading and sends its request; it renders the skeleton.
RenderApp ==
    /\ root = "idle"
    /\ root' = "mounted"
    /\ mounted' = MountOrder
    /\ q' = [s \in SectionSet |-> Result(TRUE, NoError, Undefined)]
    /\ inflight' = {QueryRequest(MountOrder[i]) : i \in 1..Len(MountOrder)}
    /\ output' = [s \in SectionSet |->
                    RenderSection(s, variant, Result(TRUE, NoError, Undefined), tz)]
    /\ UNCHANGED <<variant, tz, page, clicks, pages>>

\* Section s re-renders with the result r.  An exception raised while
\* rendering has no error boundary above it: React unmounts the whole root.
Deliver(s, r) ==
    LET out == RenderSection(s, variant, r, tz)
    IN  /\ q' = [q EXCEPT ![s] = [r EXCEPT !.data = DataAfterRender(s, r)]]
        /\ output' = [output EXCEPT ![s] = out]
        /\ root' = IF out.kind = "throw" THEN "unmounted" ELSE root

\* The query of section s resolves with data d and no error.
ResolveData(s, d) ==
    /\ root = "mounted"
    /\ QueryRequest(s) \in inflight
    /\ inflight' = inflight \ {QueryRequest(s)}
    /\ Deliver(s, Result(FALSE, NoError, d))
    /\ pages' = IF s = "Swaps" /\ variant = "paged" /\ HasField(d, "swaps")
                THEN <<0>> ELSE pages
    /\ UNCHANGED <<variant, tz, mounted, page, clicks>>

\* Seeded fault in the failure: the request is sent again (an automatic retry).
ResolveErrorRetry(s, m, d) ==
    /\ root = "mounted"
    /\ QueryRequest(s) \in inflight
    /\ inflight' = inflight
    /\ Deliver(s, Result(FALSE, m, d))
    /\ UNCHANGED <<variant, tz, mounted, page, clicks, pages>>

\* The query of section s fails with message m (data d beside it).
ResolveError(s, m, d) ==
    /\ root = "mounted"
    /\ QueryRequest(s) \in inflight
    /\ inflight' = inflight \ {QueryRequest(s)}
    /\ Deliver(s, Result(FALSE, m, d))
    /\ UNCHANGED <<variant, tz, mounted, page, clicks, pages>>

\* ----------------------------------------------------- pagination variant

\* fetchMore({ variables: { skip: (page + 1) * pageSize }, updateQuery }):
\* the request keeps the page the click saw.  useQuery is called without
\* notifyOnNetworkStatusChange, so loading stays false and the button stays.
MoreRequest(p, n) ==
    [sec |-> "Swaps", kind |-> "more", skip |-> (p + 1) * pageSize, page |-> p, n |-> n]

\* onClick={loadMore}: only while the load-more button is rendered.
LoadMore ==
    /\ variant = "paged"
    /\ root = "mounted"
    /\ output["Swaps"].kind = "content"
    /\ output["Swaps"].control = "button"
    /\ clicks < MaxClicks
    /\ clicks' = clicks + 1
    /\ inflight' = inflight \cup {MoreRequest(page, clicks + 1)}
    /\ UNCHANGED <<variant, tz, root, mounted, q, output, page, pages>>

\* updateQuery(prev, { fetchMoreResult }): prev when there is no result;
\* otherwise setPage(page + 1), then the two lists spread into one.  A spread
\* of a missing swaps field raises inside the fetchMore promise, after
\* setPage, and writes nothing.
UpdateQuery(prev, fetchMoreResult) ==
    IF fetchMoreResult.tag = "undefined" THEN prev
    ELSE IF HasField(prev, "swaps") /\ HasField(fetchMoreResult, "swaps")
    THEN Obj("swaps", prev.list \o fetchMoreResult.list)
    ELSE prev

\* Seeded fault in updateQuery: setPage(page + 1) runs before the test of
\* fetchMoreResult.
PageAfterSetFirst(req, fetchMoreResult) == req.page + 1

\* The page a resolved fetchMore leaves in the state: setPage(page + 1) with
\* the page its click saw, unless updateQuery returned early.
PageAfter(req, fetchMoreResult) ==
    IF fetchMoreResult.tag = "undefined" THEN page ELSE req.page + 1

\* A fetchMore request resolves with fetchMoreResult.
ResolveMore(req, fetchMoreResult) ==
    /\ root = "mounted"
    /\ req \in inflight
    /\ req.kind = "more"
    /\ inflight' = inflight \ {req}
    /\ page' = PageAfter(req, fetchMoreResult)
    /\ Deliver("Swaps",
               [q["Swaps"] EXCEPT !.data = UpdateQuery(q["Swaps"].data, fetchMoreResult)])
    /\ pages' = IF HasField(q["Swaps"].data, "swaps") /\ HasField(fetchMoreResult, "swaps")
                THEN Append(pages, req.skip) ELSE pages
    /\ UNCHANGED <<variant, tz, mounted, clicks>>

\* A fetchMore request fails: its promise rejects, nothing is written.
FailMore(req) ==
    /\ root = "mounted"
    /\ req \in inflight
    /\ req.kind = "more"
    /\ inflight' = inflight \ {req}
    /\ UNCHANGED <<variant, tz, root, mounted, q, output, page, clicks, pages>>

\* What a fetchMore can resolve with.
MoreResults == {Undefined} \cup {Obj("swaps", l) : l \in ListsOver(PagedPool, MaxSwaps)}

\* ---------------------------------------------------------- specifications

Next ==
    \/ RenderApp
    \/ \E s \in SectionSet : \E d \in SuccessData(s, variant) : ResolveData(s, d)
    \/ \E s \in SectionSet : \E m \in Messages : \E d \in ErrorData(s, variant) :
          ResolveError(s, m, d)
    \/ LoadMore
    \/ \E req \in inflight : \E r \in MoreResults : ResolveMore(req, r)
    \/ \E req \in inflight : FailMore(req)

Spec == Init /\ [][Next]_vars

\* The aggregation alone: the Swaps query of a bucketing variant resolves with
\* a swap list drawn from a wider set, and the section renders it.

\* (amountUSD, timestamp) of the swaps of the short lists.
AggPool ==
    {<<a, IntToString(t)>> :
        a \in {IntToString(10), IntToString(20) \o <<".", "5">>, <<"a", "b", "c">>},
        t \in {0, 300, 600, 4200}}

\* Swap i (from 1) of a generated list in the server's order, timestamp
\* descending: step seconds apart, amounts in a cycle of three.
LongSwap(i, step) ==
    Swap(i,
         CASE i % 3 = 0 -> IntToString(10)
           [] i % 3 = 1 -> IntToString(20) \o <<".", "5">>
           [] i % 3 = 2 -> <<"0", ".", "2", "5">>,
         IntToString(9000 - step * (i - 1)))

LongLengths == {k * ChunkSize + r : k \in 0..MaxFullChunks, r \in {0, 1, ChunkSize - 1}}

LongLists == {[i \in 1..n |-> LongSwap(i, step)] : n \in LongLengths, step \in {0, 1, 13}}

\* Generated lists of more than one chunk in which one swap, the first or
\* the last, has an amountUSD that does not parse.
BadAmountLists ==
    UNION {{[[i \in 1..n |-> LongSwap(i, 13)] EXCEPT ![p].amountUSD = <<"a", "b", "c">>] :
               p \in {1, n}} :
           n \in {m \in LongLengths : m > ChunkSize}}

AggLists == ListsOver(AggPool, MaxSwaps) \cup LongLists \cup BadAmountLists

InitAgg == Init /\ variant # "paged"

NextAgg ==
    \/ RenderApp
    \/ \E l \in AggLists : ResolveData("Swaps", Obj("swaps", l))

SpecAgg == InitAgg /\ [][NextAgg]_vars

\* The recent-swap list: the Swaps query of a bucketing variant resolves with
\* a generated list of fewer than, exactly, or more than five swaps.
LatestLists ==
    {[i \in 1..n |-> LongSwap(i, step)] : n \in 0..(LatestCount + 1), step \in {0, 13}}
        \cup LongLists

NextLatest ==
    \/ RenderApp
    \/ \E l \in LatestLists : ResolveData("Swaps", Obj("swaps", l))

SpecLatest == InitAgg /\ [][NextLatest]_vars

\* The three list sections alone: each query resolves with a list of rows,
\* drawn row by row up to MaxBars, or the full list the query asks for.

\* Row i (from 1) of a full response, in the server's order (descending).
FullTokenRow(i) ==
    [symbol |-> IF i % 2 = 1 THEN "WETH" ELSE "USDC", volumeUSD |-> IntToString(100 - i)]

FullPoolRow(i) ==
    [token0 |-> IF i % 2 = 1 THEN "WETH" ELSE "DAI", token1 |-> "USDC",
     volumeUSD |-> IntToString(100 - i)]

FullDayRow(i) ==
    [date |-> 19980 - i, tvlUSD |-> IntToString(500 - i),
     volumeUSD |-> IntToString(40 + i), feesUSD |-> IntToString(i)]

RowLists(s) ==
    CASE s = "TokenVolume" ->
           RowsOver(TokenRows, MaxBars) \cup {[i \in 1..TopCount |-> FullTokenRow(i)]}
      [] s = "TopPairs" ->
           RowsOver(PoolRows, MaxBars) \cup {[i \in 1..TopCount |-> FullPoolRow(i)]}
      [] s = "ProtocolStats" ->
           RowsOver(DayRows, MaxBars) \cup {[i \in 1..DayCount |-> FullDayRow(i)]}

ListSections == {"TokenVolume", "TopPairs", "ProtocolStats"}

InitRows == Init /\ variant = "current"

NextRows ==
    \/ RenderApp
    \/ \E s \in ListSections : \E l \in RowLists(s) : ResolveData(s, Obj(ListField(s), l))

SpecRows == InitRows /\ [][NextRows]_vars

\* ------------------------------------------------------ reading the state

\* pending, failed or succeeded, as the section's guards read the result.
Status(r) ==
    IF r.loading THEN "pending" ELSE IF r.error # NoError THEN "failed" ELSE "succeeded"

\* The Swaps query has succeeded with a swaps list and the section shows it.
SwapsShown ==
    /\ Status(q["Swaps"]) = "succeeded"
    /\ HasField(q["Swaps"].data, "swaps")
    /\ output["Swaps"].kind = "content"

\* The fetched swap list and the points handed to the chart.
FetchedSwaps == q["Swaps"].data.list

ChartPoints == output["Swaps"].chart

\* Every amountUSD of the list parses as a number.
WellFormedAmounts(swaps) == \A i \in 1..Len(swaps) : ~parseFloat(swaps[i].amountUSD).nan

\* Sum of the parsed amountUSD of swaps[lo..hi], as a sum of two halves.
RECURSIVE RawTotalRange(_, _, _)
RawTotalRange(swaps, lo, hi) ==
    IF lo > hi THEN Num(0)
    ELSE IF lo = hi THEN parseFloat(swaps[lo].amountUSD)
    ELSE Add(RawTotalRange(swaps, lo, (lo + hi) \div 2),
             RawTotalRange(swaps, (lo + hi) \div 2 + 1, hi))

RawTotal(swaps) == RawTotalRange(swaps, 1, Len(swaps))

\* Sum of the y of the chart points.
RECURSIVE TotalY(_)
TotalY(points) ==
    IF points = <<>> THEN Num(0) ELSE Add(Head(points).y, TotalY(Tail(points)))

\* What is on screen for section s: nothing once the root is unmounted.
Visible(s) == IF root = "mounted" THEN output[s] ELSE NotRendered

\* ------------------------------------------------------------------ claims

\* C1: count-bucket policy (chunks of 100, current and earliest Swaps): for
\* every swap list with well-formed amounts the y totals of the emitted
\* buckets add up to the sum of the parsed amountUSD of all input swaps, so
\* every swap is counted in exactly one bucket.
C1_CountBucketsPreserveTotal ==
    (variant \in {"current", "first"} /\ SwapsShown /\ WellFormedAmounts(FetchedSwaps))
        => TotalY(ChartPoints) = RawTotal(FetchedSwaps)

\* C1 witness: several full chunks and a remainder chunk have been charted.
C1_Witness ==
    /\ variant \in {"current", "first"}
    /\ SwapsShown
    /\ WellFormedAmounts(FetchedSwaps)
    /\ Len(ChartPoints) >= 3
    /\ Len(FetchedSwaps) % ChunkSize # 0

\* C2: time-bucket policy (10-minute intervals): for every swap list with
\* well-formed amounts the totalAmount of the emitted interval points add up
\* to the sum of the parsed amountUSD of all input swaps.
C2_TimeBucketsPreserveTotal ==
    (variant = "time" /\ SwapsShown /\ WellFormedAmounts(FetchedSwaps))
        => TotalY(ChartPoints) = RawTotal(FetchedSwaps)

\* C2 witness: an interval that holds more than one swap, beside another one.
C2_Witness ==
    /\ variant = "time"
    /\ SwapsShown
    /\ WellFormedAmounts(FetchedSwaps)
    /\ Len(ChartPoints) >= 2
    /\ \E i \in 1..Len(ChartPoints) : ChartPoints[i].count >= 2

\* The list is in the order of the swap query: timestamp descending.
TimestampDescending(swaps) ==
    \A i \in 1..(Len(swaps) - 1) :
        parseInt(swaps[i].timestamp).v >= parseInt(swaps[i + 1].timestamp).v

\* C3 (as claimed): count-bucket policy: for every swap list in the order of
\* the swap query (timestamp descending) the bucket points handed to the
\* chart are in non-decreasing time order.
C3_BucketsTimeAscending ==
    (variant \in {"current", "first"} /\ SwapsShown /\ TimestampDescending(FetchedSwaps))
        => \A i \in 1..(Len(ChartPoints) - 1) : ChartPoints[i].x.v <= ChartPoints[i + 1].x.v

\* The interval keys of the swaps of a list.
IntervalKeys(swaps) == {TimeKey(swaps[i], tz).v : i \in 1..Len(swaps)}

\* C4: time-bucket policy: for every swap list, in any input order, the
\* emitted points hold exactly one point per distinct interval key and are
\* sorted by x strictly ascending.
C4_TimeBucketsOnePerKeySorted ==
    (variant = "time" /\ SwapsShown)
        => /\ {ChartPoints[i].x.v : i \in 1..Len(ChartPoints)} = IntervalKeys(FetchedSwaps)
           /\ Len(ChartPoints) = Cardinality(IntervalKeys(FetchedSwaps))
           /\ \A i \in 1..(Len(ChartPoints) - 1) : ChartPoints[i].x.v < ChartPoints[i + 1].x.v

\* C4 witness: a list in the server's order (latest first) whose swaps share
\* intervals, so that entries were merged and the sort had to reorder them.
C4_Witness ==
    /\ variant = "time"
    /\ SwapsShown
    /\ Len(ChartPoints) >= 2
    /\ Len(ChartPoints) < Len(FetchedSwaps)
    /\ TimeKey(FetchedSwaps[1], tz).v > TimeKey(FetchedSwaps[Len(FetchedSwaps)], tz).v

\* C5: when the swap fetch succeeds with an empty swap list (or, in the
\* current Swaps, with no swaps field at all), the section shows its content
\* with a chart of zero points and zero recent-swap cards: no error message,
\* no exception.  For the count-bucket and the time-bucket policy.
C5_EmptySwapsIsContent ==
    LET r       == q["Swaps"]
        noSwaps == (variant \in {"current", "time", "first"} /\ r.data = Obj("swaps", <<>>))
                     \/ (variant = "current" /\ ~HasField(r.data, "swaps"))
    IN  (root # "idle" /\ Status(r) = "succeeded" /\ noSwaps)
            => /\ output["Swaps"].kind = "content"
               /\ output["Swaps"].chart = <<>>
               /\ output["Swaps"].cards = <<>>

\* C5 witness: the current Swaps has rendered a result whose data has no
\* swaps field.
C5_Witness ==
    /\ variant = "current"
    /\ root # "idle"
    /\ Status(q["Swaps"]) = "succeeded"
    /\ ~HasField(q["Swaps"].data, "swaps")
    /\ output["Swaps"].kind = "content"

\* C6: each section renders one of three outputs per query state: the loading
\* placeholder while pending, the error message while failed, the charts
\* when succeeded with its list.  When the fetch has failed, the output is
\* the error message with the failure reason and no chart, whatever data is
\* also present.
C6_OneOutputPerQueryState ==
    \A s \in SectionSet :
        root # "idle" =>
            /\ Status(q[s]) = "pending" => output[s] = LoadingSkeleton
            /\ Status(q[s]) = "failed" =>
                  /\ output[s].kind = "error"
                  /\ output[s].message = q[s].error
                  /\ output[s].chart = <<>>
            /\ (Status(q[s]) = "succeeded" /\ HasField(q[s].data, ListField(s)))
                  => output[s].kind = "content"

\* C6 witness: a section whose fetch failed with data beside the error shows
\* the failure reason.
C6_Witness ==
    \E s \in SectionSet :
        /\ Status(q[s]) = "failed"
        /\ HasField(q[s].data, ListField(s))
        /\ output[s] = ErrorMessage("Failed to fetch")

\* C7 (as claimed): no section throws while rendering, whatever the outcome
\* of its query: it renders a loading placeholder, an error message or
\* content.
C7_NoSectionThrows ==
    \A s \in SectionSet :
        root # "idle" => output[s].kind \in {"loading", "error", "content"}

\* The requests of section s among a set of requests.
RequestsOf(s, reqs) == {req \in reqs : req.sec = s}

\* C8: a section makes no fetch-state transition on its own: a failed section
\* stays failed, a section leaves a state only when its own request is
\* answered or on a user action, and a request is sent only at mount or by a
\* load-more click (no automatic retry).
C8_NoSpontaneousTransition ==
    [][\A s \in SectionSet :
          /\ (root # "idle" /\ Status(q[s]) = "failed") => Status(q'[s]) = "failed"
          /\ (root # "idle" /\ Status(q'[s]) # Status(q[s]))
                => \/ RequestsOf(s, inflight) \ inflight' # {}
                   \/ clicks' # clicks
          /\ RequestsOf(s, inflight') \ inflight # {}
                => (root = "idle" \/ clicks' = clicks + 1)]_vars

\* C8 witness: one section has failed and its request is gone, while another
\* is still pending and a third has succeeded.
C8_Witness ==
    \E s, t, u \in SectionSet :
        /\ root = "mounted"
        /\ Status(q[s]) = "failed" /\ RequestsOf(s, inflight) = {}
        /\ Status(q[t]) = "pending" /\ RequestsOf(t, inflight) # {}
        /\ Status(q[u]) = "succeeded"

\* C9 (as claimed): pagination variant: the accumulated swap list is the
\* concatenation of the pages fetched so far, page 0, then page 1, ...: block
\* i of the list was fetched with skip (i - 1) * pageSize, so no page is
\* there twice, also when load-more is clicked again before the previous
\* page fetch has resolved.
C9_PagesInOrderOnce ==
    variant = "paged" => \A i \in 1..Len(pages) : pages[i] = (i - 1) * pageSize

\* C10 (as claimed): the four sections are mounted in the order Swaps,
\* TokenVolume, TopPairs, ProtocolStats and are independent: what a section
\* shows depends on the outcome of its own fetch only, and whatever happens
\* to the fetch of another section, a pending section can still receive its
\* data and reach its content.
C10_SectionsIndependent ==
    root # "idle" =>
        /\ mounted = <<"Swaps", "TokenVolume", "TopPairs", "ProtocolStats">>
        /\ \A s \in SectionSet :
              /\ RenderSection(s, variant, q[s], tz).kind # "throw"
                    => Visible(s) = RenderSection(s, variant, q[s], tz)
              /\ Status(q[s]) = "pending"
                    => ENABLED (\E l \in Lists(s, variant) :
                                   ResolveData(s, Obj(ListField(s), l)))

\* Section s has succeeded with its list and shows its charts.
ListShown(s) ==
    /\ Status(q[s]) = "succeeded"
    /\ HasField(q[s].data, ListField(s))
    /\ output[s].kind = "content"

\* C11: TokenVolume and TopPairs: for a succeeded query returning n records
\* (0 <= n <= 5) the bar series has exactly n labels and n values, not padded
\* to 5; label i and value i both come from record i of the response, in the
\* server's order, and value i is that record's volumeUSD parsed as a number.
C11_BarSeriesFollowsRecords ==
    /\ ListShown("TokenVolume") =>
          LET tokens == q["TokenVolume"].data.list
              chart  == output["TokenVolume"].chart
          IN  /\ Len(chart.labels) = Len(tokens)
              /\ Len(chart.data) = Len(tokens)
              /\ \A i \in 1..Len(tokens) :
                    /\ chart.labels[i] = tokens[i].symbol
                    /\ chart.data[i] = parseFloat(tokens[i].volumeUSD)
    /\ ListShown("TopPairs") =>
          LET pairs == q["TopPairs"].data.list
              chart == output["TopPairs"].chart
          IN  /\ Len(chart.labels) = Len(pairs)
              /\ Len(chart.data) = Len(pairs)
              /\ \A i \in 1..Len(pairs) :
                    /\ chart.labels[i] = <<pairs[i].token0, "/", pairs[i].token1>>
                    /\ chart.data[i] = parseFloat(pairs[i].volumeUSD)

\* C11 witness: TokenVolume shows a full response of five records and
\* TopPairs one of fewer records with different volumes.
C11_Witness ==
    /\ ListShown("TokenVolume") /\ Len(output["TokenVolume"].chart.data) = TopCount
    /\ ListShown("TopPairs")
    /\ Len(output["TopPairs"].chart.data) \in 2..(TopCount - 1)
    /\ output["TopPairs"].chart.data[1] # output["TopPairs"].chart.data[2]

\* The timestamp of a swap rounded down to a multiple of the interval, in
\* epoch milliseconds.
RoundedDown(swap) ==
    (parseInt(swap.timestamp).v \div (IntervalMinutes * 60)) * (IntervalMinutes * 60) * 1000

\* C12 (as claimed): time-bucket policy with width 600 s: the interval key of
\* every swap is its timestamp rounded down to a multiple of 600 s, so two
\* swaps share a bucket exactly when their timestamps round down to the same
\* multiple (timestamps 0 and 300 both map to key 0); for every local
\* timezone offset of the browser.
C12_KeyIsTimestampRoundedDown ==
    (variant = "time" /\ SwapsShown) =>
        /\ \A i \in 1..Len(FetchedSwaps) :
              /\ TimeKey(FetchedSwaps[i], tz).v = RoundedDown(FetchedSwaps[i])
              /\ \E k \in 1..Len(ChartPoints) :
                    ChartPoints[k].x.v = RoundedDown(FetchedSwaps[i])
        /\ \A i, j \in 1..Len(FetchedSwaps) :
              (TimeKey(FetchedSwaps[i], tz) = TimeKey(FetchedSwaps[j], tz))
                  <=> (RoundedDown(FetchedSwaps[i]) = RoundedDown(FetchedSwaps[j]))

\* C13: count-bucket policy with size 100: n swaps yield ceil(n / 100)
\* buckets; bucket k holds the contiguous records 100k .. min(100k + 99,
\* n - 1), so no bucket is empty, every bucket but the last holds 100
\* records, and the remainder bucket is summed like a full one.
C13_CeilBucketsOfContiguousRecords ==
    (variant \in {"current", "first"} /\ SwapsShown) =>
        LET n == Len(FetchedSwaps)
        IN  /\ Len(ChartPoints) = (n + ChunkSize - 1) \div ChunkSize
            /\ \A k \in 1..Len(ChartPoints) :
                  LET lo == (k - 1) * ChunkSize + 1
                      hi == Min(k * ChunkSize, n)
                  IN  /\ lo <= hi
                      /\ k < Len(ChartPoints) => hi - lo + 1 = ChunkSize
                      /\ ChartPoints[k].y = RawTotalRange(FetchedSwaps, lo, hi)

\* C13 witness: two full buckets and a remainder bucket of one swap, whose
\* total is that swap's amount.
C13_Witness ==
    /\ variant \in {"current", "first"}
    /\ SwapsShown
    /\ Len(FetchedSwaps) = 2 * ChunkSize + 1
    /\ Len(ChartPoints) = 3
    /\ ChartPoints[3].y = parseFloat(FetchedSwaps[Len(FetchedSwaps)].amountUSD)
    /\ ~ChartPoints[3].y.nan

\* Sum of the parsed timestamps of swaps[lo..hi], as a sum of two halves.
RECURSIVE TimestampTotalRange(_, _, _)
TimestampTotalRange(swaps, lo, hi) ==
    IF lo > hi THEN Num(0)
    ELSE IF lo = hi THEN parseInt(swaps[lo].timestamp)
    ELSE Add(TimestampTotalRange(swaps, lo, (lo + hi) \div 2),
             TimestampTotalRange(swaps, (lo + hi) \div 2 + 1, hi))

\* C14: count-bucket policy in the current Swaps: the x of each bucket is
\* the arithmetic mean of its members' timestamps (their sum divided by
\* their number, times 1000 ms, as a whole number of ms), so it lies between
\* the smallest and the largest member timestamp; no bucket is empty, so the
\* division is never by zero.
C14_XIsMeanOfMemberTimestamps ==
    (variant = "current" /\ SwapsShown) =>
        \A k \in 1..Len(ChartPoints) :
            LET lo      == (k - 1) * ChunkSize + 1
                hi      == Min(k * ChunkSize, Len(FetchedSwaps))
                members == hi - lo + 1
                total   == TimestampTotalRange(FetchedSwaps, lo, hi)
                x       == ChartPoints[k].x
            IN  /\ members >= 1
                /\ ~x.nan
                /\ x.v * members <= total.v * 1000
                /\ total.v * 1000 < (x.v + 1) * members
                /\ \E i, j \in lo..hi :
                      /\ parseInt(FetchedSwaps[i].timestamp).v * 1000 <= x.v
                      /\ x.v <= parseInt(FetchedSwaps[j].timestamp).v * 1000

\* C14 witness: a remainder bucket of several swaps with different
\* timestamps, its x strictly between two of them.
C14_Witness ==
    /\ variant = "current"
    /\ SwapsShown
    /\ Len(FetchedSwaps) % ChunkSize > 1
    /\ LET k  == Len(ChartPoints)
           lo == (k - 1) * ChunkSize + 1
       IN  \E i, j \in lo..Len(FetchedSwaps) :
              /\ parseInt(FetchedSwaps[i].timestamp).v * 1000 < ChartPoints[k].x.v
              /\ ChartPoints[k].x.v < parseInt(FetchedSwaps[j].timestamp).v * 1000

\* Some swap among swaps[lo..hi] has an amountUSD that does not parse.
HasBadAmount(swaps, lo, hi) == \E i \in lo..hi : parseFloat(swaps[i].amountUSD).nan

\* Sum of the parsed amounts of the swaps of swaps[lo..hi] with interval key
\* key, as a sum of two halves.
RECURSIVE KeyTotalRange(_, _, _, _)
KeyTotalRange(swaps, lo, hi, key) ==
    IF lo > hi THEN 0
    ELSE IF lo = hi
    THEN IF TimeKey(swaps[lo], tz) = key /\ ~parseFloat(swaps[lo].amountUSD).nan
         THEN parseFloat(swaps[lo].amountUSD).v ELSE 0
    ELSE KeyTotalRange(swaps, lo, (lo + hi) \div 2, key)
           + KeyTotalRange(swaps, (lo + hi) \div 2 + 1, hi, key)

\* Sum of the amounts of swaps[lo..hi] that parse.
RECURSIVE GoodTotalRange(_, _, _)
GoodTotalRange(swaps, lo, hi) ==
    IF lo > hi THEN 0
    ELSE IF lo = hi
    THEN IF parseFloat(swaps[lo].amountUSD).nan THEN 0
         ELSE parseFloat(swaps[lo].amountUSD).v
    ELSE GoodTotalRange(swaps, lo, (lo + hi) \div 2)
           + GoodTotalRange(swaps, (lo + hi) \div 2 + 1, hi)

\* C15: a swap whose amountUSD does not parse is neither skipped, nor taken
\* as zero, nor shown as an error: the section reaches its content, the
\* total of the bucket holding that swap is not-a-number, and the totals of
\* all other buckets are the sums of their members.
C15_BadAmountPoisonsOwnBucketOnly ==
    (variant \in {"current", "first", "time"} /\ root # "idle"
        /\ Status(q["Swaps"]) = "succeeded" /\ HasField(q["Swaps"].data, "swaps")) =>
        /\ output["Swaps"].kind = "content"
        /\ variant \in {"current", "first"} =>
              \A k \in 1..Len(ChartPoints) :
                  LET lo == (k - 1) * ChunkSize + 1
                      hi == Min(k * ChunkSize, Len(FetchedSwaps))
                  IN  /\ ChartPoints[k].y.nan <=> HasBadAmount(FetchedSwaps, lo, hi)
                      /\ ~ChartPoints[k].y.nan =>
                            ChartPoints[k].y.v = GoodTotalRange(FetchedSwaps, lo, hi)
        /\ variant = "time" =>
              \A k \in 1..Len(ChartPoints) :
                  /\ ChartPoints[k].y.nan <=>
                        \E i \in 1..Len(FetchedSwaps) :
                            /\ TimeKey(FetchedSwaps[i], tz) = ChartPoints[k].x
                            /\ parseFloat(FetchedSwaps[i].amountUSD).nan
                  /\ ~ChartPoints[k].y.nan =>
                        ChartPoints[k].y.v =
                            KeyTotalRange(FetchedSwaps, 1, Len(FetchedSwaps), ChartPoints[k].x)

\* C15 witness: several buckets are charted, one with a not-a-number total
\* and another with a total that is a number and not zero.
C15_Witness ==
    /\ variant \in {"current", "first", "time"}
    /\ SwapsShown
    /\ HasBadAmount(FetchedSwaps, 1, Len(FetchedSwaps))
    /\ \E k, m \in 1..Len(ChartPoints) :
          /\ ChartPoints[k].y.nan
          /\ ~ChartPoints[m].y.nan /\ ChartPoints[m].y.v > 0

\* C16: ProtocolStats: for a succeeded query returning n day records the
\* TVL, volume and fees series have n values each and share one list of n
\* labels; label i and the three values i all come from day record i, in the
\* order of the response.
C16_DaySeriesFollowRecords ==
    ListShown("ProtocolStats") =>
        LET days  == q["ProtocolStats"].data.list
            chart == output["ProtocolStats"].chart
        IN  /\ Len(chart.labels) = Len(days)
            /\ Len(chart.tvl) = Len(days)
            /\ Len(chart.volume) = Len(days)
            /\ Len(chart.fees) = Len(days)
            /\ \A i \in 1..Len(days) :
                  /\ chart.labels[i].pattern = "MMM d"
                  /\ chart.labels[i].date = Num(days[i].date * 1000)
                  /\ chart.tvl[i] = days[i].tvlUSD
                  /\ chart.volume[i] = days[i].volumeUSD
                  /\ chart.fees[i] = days[i].feesUSD

\* C16 witness: ProtocolStats shows a full response of thirty days, the
\* first and the last of different dates.
C16_Witness ==
    /\ ListShown("ProtocolStats")
    /\ Len(output["ProtocolStats"].chart.tvl) = DayCount
    /\ output["ProtocolStats"].chart.labels[1] # output["ProtocolStats"].chart.labels[DayCount]

\* C17 (as claimed): pagination variant, a first page being held: the page
\* counter equals the number of pages load-more has appended to the list, so
\* the next load-more asks for skip = (pages held) * 100; also when two
\* load-more clicks are made before the first one resolves.
C17_PageCountsAppendedPages ==
    (variant = "paged" /\ pages # <<>>) =>
        /\ page = Len(pages) - 1
        /\ MoreRequest(page, clicks + 1).skip = Len(pages) * pageSize

\* C18: pagination variant: when a load-more fetch returns no result, the
\* accumulated swap list and the page counter are both left unchanged.
C18_NoResultLeavesListAndPage ==
    [][(\E req \in inflight : ResolveMore(req, Undefined))
          => /\ q'["Swaps"].data = q["Swaps"].data
             /\ page' = page
             /\ pages' = pages]_vars

\* C18 witness: a page has been appended (the counter is 1, the list is not
\* empty) and a further load-more request is in flight, which can return no
\* result.
C18_Witness ==
    /\ variant = "paged"
    /\ page = 1
    /\ Len(pages) = 2
    /\ HasField(q["Swaps"].data, "swaps") /\ q["Swaps"].data.list # <<>>
    /\ \E req \in inflight : req.kind = "more" /\ ENABLED ResolveMore(req, Undefined)

\* Sum of the count fields of the chart points.
RECURSIVE TotalCount(_)
TotalCount(points) ==
    IF points = <<>> THEN 0 ELSE Head(points).count + TotalCount(Tail(points))

\* C19: time-bucket policy: every emitted point has count >= 1, and the
\* counts of all emitted points add up to the number of input swaps.
C19_CountsAddUpToSwaps ==
    (variant = "time" /\ SwapsShown) =>
        /\ \A k \in 1..Len(ChartPoints) : ChartPoints[k].count >= 1
        /\ TotalCount(ChartPoints) = Len(FetchedSwaps)

\* C19 witness: several intervals are charted, at least one of them holding
\* more than one swap and one holding a single swap.
C19_Witness ==
    /\ variant = "time"
    /\ SwapsShown
    /\ Len(FetchedSwaps) > ChunkSize
    /\ \E k, m \in 1..Len(ChartPoints) :
          ChartPoints[k].count > 1 /\ ChartPoints[m].count < ChartPoints[k].count

\* The chart points the variant's aggregation gives for a swap list.
AggregateOf(swaps) ==
    CASE variant = "current" -> AggregateAvg(swaps)
      [] variant = "time" -> AggregateTime(swaps, tz)
      [] variant = "first" -> AggregateFirst(swaps)

\* C20: the recent-swap list of Swaps is the first min(5, n) records of the
\* fetched list, in fetched order, and building it leaves the fetched
\* records and the aggregation input unchanged: the buckets are those of the
\* list as it was fetched.
C20_LatestIsHeadAndLeavesRecords ==
    [][\A l \in LatestLists :
          ResolveData("Swaps", Obj("swaps", l)) =>
              /\ q'["Swaps"].data = Obj("swaps", l)
              /\ Len(output'["Swaps"].cards) = Min(LatestCount, Len(l))
              /\ \A i \in 1..Len(output'["Swaps"].cards) :
                    /\ output'["Swaps"].cards[i].id = l[i].id
                    /\ output'["Swaps"].cards[i].amountUSD = l[i].amountUSD
                    /\ output'["Swaps"].cards[i].timestamp.date
                          = Num(parseInt(l[i].timestamp).v * 1000)
              /\ output'["Swaps"].chart = AggregateOf(l)
              /\ AggregateOf(q'["Swaps"].data.list) = AggregateOf(l)]_vars

\* C20 witness: one swap more than five was fetched, five cards are shown,
\* the fifth for the fifth record, and the first record still has its fetched
\* timestamp.
C20_Witness ==
    /\ variant \in {"current", "time"}
    /\ SwapsShown
    /\ Len(FetchedSwaps) = LatestCount + 1
    /\ Len(output["Swaps"].cards) = LatestCount
    /\ output["Swaps"].cards[LatestCount].id = FetchedSwaps[LatestCount].id
    /\ FetchedSwaps[1].timestamp = IntToString(9000)

\* A fetchMore of the pagination variant is in flight.
MoreInFlight == \E req \in inflight : req.kind = "more"

\* C21 (as claimed): pagination variant: once a first page has been
\* displayed the section never shows the loading placeholder again; while a
\* later fetch is in flight the chart and the list stay rendered and the
\* load-more control is replaced by a progress indicator, so load-more
\* cannot be triggered during that fetch.
C21_ProgressWhileFetchingMore ==
    (variant = "paged" /\ root = "mounted" /\ pages # <<>>) =>
        /\ output["Swaps"].kind # "loading"
        /\ MoreInFlight =>
              /\ output["Swaps"].kind = "content"
              /\ output["Swaps"].chart = MapSwapPoint(FetchedSwaps)
              /\ output["Swaps"].control = "progress"
              /\ ~ENABLED LoadMore

====
